---- MODULE Spec2Model ----
(***************************************************************************)
(* Model of dci-icon-theme (src/main.cpp): the packaging driver, the       *)
(* per-icon container builder, the light -> dark mirror, the maintenance   *)
(* (--fix-dark-theme) mode and the alias (symlink map) parser.             *)
(*                                                                         *)
(* Paths, file names and the alias text are strings, handled with Len,     *)
(* SubSeq and \o exactly as the QString/QByteArray calls of the source     *)
(* handle them.  A container tree is a function from absolute paths        *)
(* ("/256/normal.light") to nodes; the root "/" is always a Directory.     *)
(***************************************************************************)
EXTENDS Integers, Sequences, FiniteSets, TLC

(***************************************************************************)
(* Bounds of the model.                                                    *)
(***************************************************************************)
MaxFiles   == 2     \* files present below the source directories
MaxTextLen == 4     \* length of the free-form alias texts
MaxLines   == 2     \* embedded lines of a quoted alias value

VARIABLES
    fs,             \* the source file system: path -> [kind, link, dci]
    refused,        \* the container paths DDciFile fails to create
    pos,            \* the read position of the alias file
    fixDarkTheme,   \* cp.isSet(fixDarkTheme)
    cmdline,        \* what the command line gave, "" until main() reads it
    symlinkSet,     \* cp.isSet(symlinkMap)
    outputExists,   \* whether the output directory exists
    out,            \* the output directory: file name -> entry
    symlinksMap,    \* the alias multimap, as the sequence of its insertions
    pc,             \* position of main()
    exitCode,       \* exit status, meaningful once pc = "exit"
    sd,             \* index of the source directory being processed
    pending,        \* files the running QDirIterator has not yet returned
    text            \* content of the alias file given with --symlink

vars == <<fs, refused, pos, fixDarkTheme, cmdline, symlinkSet, outputExists, out, symlinksMap, pc, exitCode, sd,
          pending, text>>

(***************************************************************************)
(* QString helpers.                                                        *)
(***************************************************************************)
CharAt(s, i) == SubSeq(s, i, i)

EndsWith(s, suffix) ==
    /\ Len(s) >= Len(suffix)
    /\ SubSeq(s, Len(s) - Len(suffix) + 1, Len(s)) = suffix

Left(s, n) == SubSeq(s, 1, n)

\* position of the last occurrence of the character c in s, 0 when absent
RECURSIVE LastIndexOfFrom(_, _, _)
LastIndexOfFrom(s, c, i) ==
    IF i = 0 THEN 0
    ELSE IF CharAt(s, i) = c THEN i
    ELSE LastIndexOfFrom(s, c, i - 1)

LastIndexOf(s, c) == LastIndexOfFrom(s, c, Len(s))

\* QFileInfo::fileName : the part after the last '/'
FileName(path) == SubSeq(path, LastIndexOf(path, "/") + 1, Len(path))

\* QFileInfo::path : the part before the last '/'
DirPath(path) ==
    LET k == LastIndexOf(path, "/")
    IN  IF k <= 1 THEN "/" ELSE Left(path, k - 1)

\* QFileInfo::completeBaseName : the file name up to its last '.'
CompleteBaseName(path) ==
    LET name == FileName(path)
        k    == LastIndexOf(name, ".")
    IN  IF k = 0 THEN name ELSE Left(name, k - 1)

(***************************************************************************)
(* The container tree (DDciFile).                                          *)
(***************************************************************************)
DirNode        == [type |-> "Directory", data |-> ""]
FileNode(data) == [type |-> "File", data |-> data]
LinkNode(src)  == [type |-> "Symlink", data |-> src]

\* a freshly constructed DDciFile
EmptyDci == [p \in {"/"} |-> DirNode]

Exists(dci, path) == path \in DOMAIN dci

Type(dci, path) == IF Exists(dci, path) THEN dci[path].type ELSE "UnknowFile"

AddNode(dci, path, node) ==
    [p \in DOMAIN dci \cup {path} |-> IF p = path THEN node ELSE dci[p]]

\* a node can be created where nothing exists and the parent is a Directory,
\* unless the library fails on this path
CanCreate(dci, path) ==
    /\ ~Exists(dci, path)
    /\ Type(dci, DirPath(path)) = "Directory"
    /\ path \notin refused

Mkdir(dci, path) ==
    IF CanCreate(dci, path)
    THEN [ok |-> TRUE,  dci |-> AddNode(dci, path, DirNode)]
    ELSE [ok |-> FALSE, dci |-> dci]

WriteFile(dci, path, data) ==
    IF CanCreate(dci, path)
    THEN [ok |-> TRUE,  dci |-> AddNode(dci, path, FileNode(data))]
    ELSE [ok |-> FALSE, dci |-> dci]

\* link(source, target): a Symlink node at target that refers to source
Link(dci, source, target) ==
    IF CanCreate(dci, target) /\ Exists(dci, source)
    THEN [ok |-> TRUE,  dci |-> AddNode(dci, target, LinkNode(source))]
    ELSE [ok |-> FALSE, dci |-> dci]

\* list(dir, onlyFileName): the immediate children of dir, as bare names
\* when onlyFileName is set and as full paths otherwise
List(dci, dir, onlyFileName) ==
    LET children == {p \in DOMAIN dci : p # "/" /\ DirPath(p) = dir}
    IN  IF Type(dci, dir) # "Directory" THEN {}
        ELSE IF onlyFileName THEN {FileName(p) : p \in children}
        ELSE children

(***************************************************************************)
(* Image encoding.                                                         *)
(***************************************************************************)
\* QImageReader::canRead
CanRead(imageFile) ==
    /\ imageFile \in DOMAIN fs
    /\ fs[imageFile].kind = "image"

\* the encoded payload: the image read from imageFile, scaled to size, as webp
WebpImageData(imageFile, size) == imageFile \o "@" \o ToString(size)

Fatal(dci) == [ret |-> "fatal", dci |-> dci]

\* saveOk: whether QImage::save succeeds
writeScaledImage(dci, imageFile, targetDir, scale, saveOk) ==
    LET size     == scale * 256
        scaleDir == targetDir \o "/" \o ToString(scale)
    IN  IF ~CanRead(imageFile) THEN [ret |-> "false", dci |-> dci]
        ELSE LET m == Mkdir(dci, scaleDir)
             IN  IF ~m.ok \/ ~saveOk THEN Fatal(m.dci)
                 ELSE LET w == WriteFile(m.dci, scaleDir \o "/1.webp",
                                         WebpImageData(imageFile, size))
                      IN  IF ~w.ok THEN Fatal(w.dci)
                          ELSE [ret |-> "true", dci |-> w.dci]

writeImage(dci, imageFile, targetDir, saveOk) ==
    LET first == writeScaledImage(dci, imageFile, targetDir, 2, saveOk)
    IN  IF first.ret # "true" THEN first
        ELSE writeScaledImage(first.dci, imageFile, targetDir, 3, saveOk)

(***************************************************************************)
(* Mirror.                                                                 *)
(***************************************************************************)
RECURSIVE recursionLink(_, _, _)
RECURSIVE recursionLinkEntries(_, _, _, _)

\* recursionLinkEntries with a byte copy of every leaf in place of the link
recursionLinkEntriesCopying(dci, fromDir, targetDir, entries) ==
    IF entries = {} THEN [ok |-> TRUE, dci |-> dci]
    ELSE LET i          == CHOOSE e \in entries : TRUE
             file       == fromDir \o "/" \o i
             targetFile == targetDir \o "/" \o i
             step ==
                 IF Type(dci, file) = "Directory"
                 THEN LET m == Mkdir(dci, targetFile)
                      IN  IF ~m.ok THEN m
                          ELSE recursionLink(m.dci, file, targetFile)
                 ELSE WriteFile(dci, targetFile, dci[file].data)
         IN  IF ~step.ok THEN step
             ELSE recursionLinkEntries(step.dci, fromDir, targetDir,
                                       entries \ {i})

\* recursionLinkEntries that creates the subdirectories and does not descend
recursionLinkEntriesFlat(dci, fromDir, targetDir, entries) ==
    IF entries = {} THEN [ok |-> TRUE, dci |-> dci]
    ELSE LET i          == CHOOSE e \in entries : TRUE
             file       == fromDir \o "/" \o i
             targetFile == targetDir \o "/" \o i
             step ==
                 IF Type(dci, file) = "Directory"
                 THEN Mkdir(dci, targetFile)
                 ELSE Link(dci, file, targetFile)
         IN  IF ~step.ok THEN step
             ELSE recursionLinkEntries(step.dci, fromDir, targetDir,
                                       entries \ {i})

\* the body of the loop of recursionLink, over the entries still to visit
recursionLinkEntries(dci, fromDir, targetDir, entries) ==
    IF entries = {} THEN [ok |-> TRUE, dci |-> dci]
    ELSE LET i          == CHOOSE e \in entries : TRUE
             file       == fromDir \o "/" \o i
             targetFile == targetDir \o "/" \o i
             step ==
                 IF Type(dci, file) = "Directory"
                 THEN LET m == Mkdir(dci, targetFile)
                      IN  IF ~m.ok THEN m
                          ELSE recursionLink(m.dci, file, targetFile)
                 ELSE Link(dci, file, targetFile)
         IN  IF ~step.ok THEN step
             ELSE recursionLinkEntries(step.dci, fromDir, targetDir,
                                       entries \ {i})

recursionLink(dci, fromDir, targetDir) ==
    recursionLinkEntries(dci, fromDir, targetDir, List(dci, fromDir, TRUE))

(***************************************************************************)
(* Maintenance mode: the tree part of doFixDarkTheme.                      *)
(***************************************************************************)
RECURSIVE fixLightDirs(_, _)
RECURSIVE fixSizeDirs(_, _)

\* fixLightDirs without the test that the dark sibling is absent: the light
\* subtree is also mirrored into a dark directory that exists
fixLightDirsIntoExisting(dci, js) ==
    IF js = {} THEN [ok |-> TRUE, dci |-> dci]
    ELSE LET j       == CHOOSE e \in js : TRUE
             darkDir == Left(j, Len(j) - 5) \o "dark"
             step ==
                 IF Type(dci, j) # "Directory" \/ ~EndsWith(j, ".light")
                 THEN [ok |-> TRUE, dci |-> dci]
                 ELSE IF ~Exists(dci, darkDir)
                 THEN LET m == Mkdir(dci, darkDir)
                      IN  IF ~m.ok THEN m
                          ELSE recursionLink(m.dci, j, darkDir)
                 ELSE recursionLink(dci, j, darkDir)
         IN  IF ~step.ok THEN step ELSE fixLightDirs(step.dci, js \ {j})

\* fixLightDirs without the test of the ".light" suffix
fixLightDirsAnyName(dci, js) ==
    IF js = {} THEN [ok |-> TRUE, dci |-> dci]
    ELSE LET j       == CHOOSE e \in js : TRUE
             darkDir == Left(j, Len(j) - 5) \o "dark"
             step ==
                 IF Type(dci, j) # "Directory"
                 THEN [ok |-> TRUE, dci |-> dci]
                 ELSE IF ~Exists(dci, darkDir)
                 THEN LET m == Mkdir(dci, darkDir)
                      IN  IF ~m.ok THEN m
                          ELSE recursionLink(m.dci, j, darkDir)
                 ELSE [ok |-> TRUE, dci |-> dci]
         IN  IF ~step.ok THEN step ELSE fixLightDirs(step.dci, js \ {j})

\* the inner loop of doFixDarkTheme, over the entries j still to visit
fixLightDirs(dci, js) ==
    IF js = {} THEN [ok |-> TRUE, dci |-> dci]
    ELSE LET j       == CHOOSE e \in js : TRUE
             darkDir == Left(j, Len(j) - 5) \o "dark"
             step ==
                 IF Type(dci, j) # "Directory" \/ ~EndsWith(j, ".light")
                 THEN [ok |-> TRUE, dci |-> dci]
                 ELSE IF ~Exists(dci, darkDir)
                 THEN LET m == Mkdir(dci, darkDir)
                      IN  IF ~m.ok THEN m
                          ELSE recursionLink(m.dci, j, darkDir)
                 ELSE [ok |-> TRUE, dci |-> dci]
         IN  IF ~step.ok THEN step ELSE fixLightDirs(step.dci, js \ {j})

\* the outer loop of doFixDarkTheme, over the entries i still to visit
fixSizeDirs(dci, is) ==
    IF is = {} THEN [ok |-> TRUE, dci |-> dci]
    ELSE LET i == CHOOSE e \in is : TRUE
             step ==
                 IF Type(dci, i) # "Directory"
                 THEN [ok |-> TRUE, dci |-> dci]
                 ELSE fixLightDirs(dci, List(dci, i, FALSE))
         IN  IF ~step.ok THEN step ELSE fixSizeDirs(step.dci, is \ {i})

fixDarkTree(dci) == fixSizeDirs(dci, List(dci, "/", FALSE))

(***************************************************************************)
(* The alias multimap (QMultiHash<QString, QString>), kept as the sequence *)
(* of its insertions: insert never replaces and never drops an item.       *)
(***************************************************************************)
MapInsert(map, key, value) == Append(map, <<key, value>>)

MapContains(map, key) == \E n \in 1..Len(map) : map[n][1] = key

\* values(key), most recently inserted first
RECURSIVE MapValues(_, _)
MapValues(map, key) ==
    IF map = <<>> THEN <<>>
    ELSE LET n == Len(map)
             rest == MapValues(SubSeq(map, 1, n - 1), key)
         IN  IF map[n][1] = key THEN <<map[n][2]>> \o rest ELSE rest

SeqContains(seq, x) == \E n \in 1..Len(seq) : seq[n] = x

(***************************************************************************)
(* The alias parser.  A QIODevice is the content io and a read position p, *)
(* the number of bytes consumed so far.                                    *)
(***************************************************************************)
WhiteSpace == {" ", "\t", "\n", "\r"}

\* QByteArray::trimmed
RECURSIVE Trimmed(_)
Trimmed(s) ==
    IF s = "" THEN s
    ELSE IF CharAt(s, 1) \in WhiteSpace THEN Trimmed(SubSeq(s, 2, Len(s)))
    ELSE IF CharAt(s, Len(s)) \in WhiteSpace THEN Trimmed(Left(s, Len(s) - 1))
    ELSE s

\* QByteArray::split : the pieces of s between the separators, at least one
RECURSIVE SplitFrom(_, _, _, _)
SplitFrom(s, sep, i, piece) ==
    IF i > Len(s) THEN <<piece>>
    ELSE IF CharAt(s, i) = sep THEN <<piece>> \o SplitFrom(s, sep, i + 1, "")
    ELSE SplitFrom(s, sep, i + 1, piece \o CharAt(s, i))

Split(s, sep) == SplitFrom(s, sep, 1, "")

\* io->peek(1) after p bytes were consumed
Peek(io, p) == IF p < Len(io) THEN CharAt(io, p + 1) ELSE ""

\* the while loop of readNextSection
RECURSIVE readSectionLoop(_, _, _, _)
readSectionLoop(io, p, section, oneLine) ==
    IF p >= Len(io) THEN [section |-> section, pos |-> p]
    ELSE LET ch == CharAt(io, p + 1)
             q  == p + 1
         IN  IF ~oneLine /\ ch = "\""
             THEN [section |-> section,
                   pos |-> IF Peek(io, q) = "," THEN q + 1 ELSE q]
             ELSE IF ch = "," THEN [section |-> section, pos |-> q]
             ELSE IF ch = "\"" THEN readSectionLoop(io, q, section, FALSE)
             ELSE IF oneLine /\ Peek(io, q) = "\n"
             THEN [section |-> section \o ch, pos |-> q]
             ELSE readSectionLoop(io, q, section \o ch, oneLine)

readNextSection(io, p) ==
    LET r == readSectionLoop(io, p, "", TRUE)
    IN  [section |-> Trimmed(r.section), pos |-> r.pos]

\* while (file.getChar(&ch) && ch != '\n');
RECURSIVE skipLine(_, _)
skipLine(io, p) ==
    IF p >= Len(io) THEN p
    ELSE IF CharAt(io, p + 1) = "\n" THEN p + 1
    ELSE skipLine(io, p + 1)

\* map.insert(key, i) for every i of value.split('\n')
RECURSIVE insertValues(_, _, _)
insertValues(map, key, values) ==
    IF values = <<>> THEN map
    ELSE insertValues(MapInsert(map, key, Head(values)), key, Tail(values))

\* parseRecord with the value inserted whole, not split at line ends
parseRecordUnsplit(io, p, map) ==
    LET key   == readNextSection(io, p)
        value == readNextSection(io, key.pos)
    IN  [map |-> MapInsert(map, key.section, value.section),
         pos |-> skipLine(io, value.pos)]

\* one iteration of the record loop of parseIconFileSymlinkMap
parseRecord(io, p, map) ==
    LET key   == readNextSection(io, p)
        value == readNextSection(io, key.pos)
    IN  [map |-> insertValues(map, key.section, Split(value.section, "\n")),
         pos |-> skipLine(io, value.pos)]

RECURSIVE parseRecords(_, _, _)
parseRecords(io, p, map) ==
    IF p >= Len(io) THEN map
    ELSE LET r == parseRecord(io, p, map)
         IN  parseRecords(io, r.pos, r.map)

parseIconFileSymlinkMap(io) == parseRecords(io, 0, <<>>)

(***************************************************************************)
(* The output directory: file name -> entry.  An entry is a container      *)
(* file or a symlink; src names the candidate a container was written for  *)
(* and is "" for an entry that was there before the run.                   *)
(***************************************************************************)
EmptyDir == [n \in {} |-> 0]

ContainerEntry(dci, src) ==
    [kind |-> "file", dci |-> dci, link |-> "", src |-> src]

SymlinkEntry(target, src) ==
    [kind |-> "symlink", dci |-> EmptyDci, link |-> target, src |-> src]

PutEntry(dir, name, entry) ==
    [n \in DOMAIN dir \cup {name} |-> IF n = name THEN entry ELSE dir[n]]

\* the regular file a name resolves to through symlinks, "" when none
RECURSIVE Resolve(_, _, _)
Resolve(dir, name, hops) ==
    IF name \notin DOMAIN dir THEN ""
    ELSE IF dir[name].kind = "file" THEN name
    ELSE IF hops = 0 THEN ""
    ELSE Resolve(dir, dir[name].link, hops - 1)

\* QFile::exists : follows symlinks
FileExists(dir, name) == Resolve(dir, name, Cardinality(DOMAIN dir)) # ""

\* QFile::link(target, name) : fails when name is already taken
QFileLink(dir, target, name, src) ==
    IF name \in DOMAIN dir THEN dir
    ELSE PutEntry(dir, name, SymlinkEntry(target, src))

\* DDciFile::writeToFile : replaces the file, written through a symlink
WriteToFile(dir, name, dci, src) ==
    LET real == Resolve(dir, name, Cardinality(DOMAIN dir))
    IN  PutEntry(dir, IF real = "" THEN name ELSE real,
                 ContainerEntry(dci, src))

\* the loop of makeLink over symlinksMap.values(completeBaseName)
RECURSIVE makeLinks(_, _, _, _)

\* makeLinks giving up at the first alias whose name is taken
makeLinksStopping(dir, symlinkKey, targets, src) ==
    IF targets = <<>> THEN dir
    ELSE IF (Head(targets) \o ".dci") \in DOMAIN dir THEN dir
    ELSE makeLinks(QFileLink(dir, symlinkKey, Head(targets) \o ".dci", src),
                   symlinkKey, Tail(targets), src)

makeLinks(dir, symlinkKey, targets, src) ==
    IF targets = <<>> THEN dir
    ELSE makeLinks(QFileLink(dir, symlinkKey, Head(targets) \o ".dci", src),
                   symlinkKey, Tail(targets), src)

makeLink(file, dir, dciFilePath, map) ==
    IF MapContains(map, CompleteBaseName(file))
    THEN makeLinks(dir, FileName(dciFilePath),
                   MapValues(map, CompleteBaseName(file)), file)
    ELSE dir

(***************************************************************************)
(* The inputs of a run.                                                    *)
(***************************************************************************)
Names == {"a", "b"}

\* cp.positionalArguments()
sourceDirectory == <<"/s1", "/s2">>

SourceDir(n) == sourceDirectory[n]

SourceDirs == {SourceDir(n) : n \in 1..Len(sourceDirectory)}

ImagePaths == {d \o "/" \o name \o ".png" : d \in SourceDirs, name \in Names}
DciPaths   == {d \o "/" \o name \o ".dci" : d \in SourceDirs, name \in Names}
DarkPaths  == {d \o "/dark/" \o name \o ".png" :
                   d \in SourceDirs, name \in Names}

ImageFile     == [kind |-> "image",   link |-> "", dci |-> EmptyDci]
CorruptFile   == [kind |-> "corrupt", link |-> "", dci |-> EmptyDci]
SymlinkTo(p)  == [kind |-> "symlink", link |-> p,  dci |-> EmptyDci]
DciFile(tree) == [kind |-> "dci",     link |-> "", dci |-> tree]

\* the container the build pass writes for a light-only icon
LightOnlyDci ==
    LET light == "/256/normal.light"
        t1 == AddNode(AddNode(EmptyDci, "/256", DirNode), light, DirNode)
        t2 == AddNode(t1, light \o "/2", DirNode)
    IN  AddNode(t2, light \o "/2/1.webp", FileNode("webp"))

\* what may be found at a path of the source tree
FilesAt(p) ==
    IF p \in DarkPaths THEN {ImageFile, CorruptFile}
    ELSE IF p \in DciPaths THEN {DciFile(LightOnlyDci)}
    ELSE {ImageFile, CorruptFile}
         \cup {SymlinkTo(q) : q \in (ImagePaths \cup DciPaths) \ {p}}

\* a symlink of the source tree refers to a regular file of another name
LinksResolve(tree) ==
    \A p \in DOMAIN tree :
        tree[p].kind = "symlink" =>
            /\ tree[p].link \in DOMAIN tree
            /\ tree[tree[p].link].kind # "symlink"
            /\ CompleteBaseName(tree[p].link) # CompleteBaseName(p)

SourceTrees ==
    LET AllPaths == ImagePaths \cup DciPaths \cup DarkPaths
        AllFiles == UNION {FilesAt(p) : p \in AllPaths}
        Chosen   == {S \in SUBSET AllPaths : Cardinality(S) <= MaxFiles}
    IN  {tree \in UNION {[S -> AllFiles] : S \in Chosen} :
            /\ \A p \in DOMAIN tree : tree[p] \in FilesAt(p)
            /\ LinksResolve(tree)}

\* the files QDirIterator finds below a source directory
FilesBelow(dir) ==
    {p \in DOMAIN fs : Len(p) > Len(dir) /\ Left(p, Len(dir) + 1) = dir \o "/"}

OldEntry == ContainerEntry(LightOnlyDci, "")

\* the output directory at the start: absent, empty, or left by an earlier
\* run; a run that finds it present ends before it reads the source tree
\* and is enumerated over the source trees of at most one file, without
\* failures of the container library
OutputDirs ==
    { [exists |-> FALSE, entries |-> EmptyDir],
      [exists |-> TRUE,  entries |-> EmptyDir],
      [exists |-> TRUE,  entries |-> PutEntry(EmptyDir, "a.dci", OldEntry)] }

\* alias files of the driver's runs
DriverTexts == {"a,b\na,b\n", "b,\"\nc\na\n\"\n"}

\* the failures of mkdir, writeFile and link of a run: a scale directory of
\* the dark tone, a leaf of the dark tone
RefusedSets ==
    { {"/256/normal.dark/2"}, {"/256/normal.dark/2/1.webp"} }

Init ==
    /\ fs \in SourceTrees
    /\ refused \in {{}} \cup RefusedSets
    /\ pos = 0
    /\ fixDarkTheme \in BOOLEAN
    /\ cmdline = ""
    /\ \E o \in OutputDirs :
          /\ outputExists = o.exists
          /\ out = o.entries
          /\ o.exists => Cardinality(DOMAIN fs) <= 1 /\ refused = {}
    /\ \/ symlinkSet = FALSE /\ text = ""
       \/ symlinkSet = TRUE /\ text \in DriverTexts
    /\ symlinksMap = <<>>
    /\ pc = "args"
    /\ exitCode = 0
    /\ sd = 1
    /\ pending = {}

Exit(code) ==
    /\ pc' = "exit"
    /\ exitCode' = code

(***************************************************************************)
(* main(), up to the loop over the source directories.                     *)
(***************************************************************************)
\* lines 218-229
ParseArgs ==
    /\ pc = "args"
    /\ \E given \in {"none", "nosource", "nooutput", "ok"} :
          /\ cmdline' = given
          /\ IF given = "none" THEN Exit(-1)
             ELSE IF given = "nosource" THEN Exit(-2)
             ELSE IF given = "nooutput" THEN Exit(-4)
             ELSE pc' = "output" /\ UNCHANGED exitCode
    /\ UNCHANGED <<fs, refused, pos, fixDarkTheme, symlinkSet, outputExists, out,
                   symlinksMap, sd, pending, text>>

\* lines 231-240
PrepareOutputDir ==
    /\ pc = "output"
    /\ IF ~outputExists
       THEN \E mkpathOk \in BOOLEAN :
                IF mkpathOk
                THEN outputExists' = TRUE /\ pc' = "symlink"
                     /\ UNCHANGED exitCode
                ELSE Exit(-5) /\ UNCHANGED outputExists
       ELSE Exit(-1) /\ UNCHANGED outputExists
    /\ UNCHANGED <<fs, refused, pos, fixDarkTheme, symlinkSet, cmdline, out, symlinksMap, sd, pending,
                   text>>

\* lines 242-245 and 104-109
LoadSymlinkMap ==
    /\ pc = "symlink"
    /\ \E openOk \in BOOLEAN :
          IF ~symlinkSet
          THEN pc' = "dirs" /\ UNCHANGED <<symlinksMap, exitCode, pos>>
          ELSE IF ~openOk
          THEN Exit(-7) /\ UNCHANGED <<symlinksMap, pos>>
          ELSE /\ symlinksMap' = parseIconFileSymlinkMap(text)
               /\ pos' = Len(text)
               /\ pc' = "dirs"
               /\ UNCHANGED exitCode
    /\ UNCHANGED <<fs, refused, fixDarkTheme, symlinkSet, cmdline, outputExists, out, sd, pending,
                   text>>

(***************************************************************************)
(* main(), the loop over the source directories.                           *)
(***************************************************************************)
\* lines 249-254: the next source directory, skipped when it does not exist
BeginSourceDir ==
    /\ pc = "dirs"
    /\ sd <= Len(sourceDirectory)
    /\ \E dirExists \in BOOLEAN :
          /\ FilesBelow(SourceDir(sd)) # {} => dirExists
          /\ IF dirExists
             THEN /\ pc' = "harvest"
                  /\ pending' = FilesBelow(SourceDir(sd))
                  /\ UNCHANGED sd
             ELSE /\ sd' = sd + 1
                  /\ UNCHANGED <<pc, pending>>
    /\ UNCHANGED <<fs, refused, pos, fixDarkTheme, symlinkSet, cmdline, outputExists, out, symlinksMap,
                   exitCode, text>>

\* lines 261-274: one turn of the first QDirIterator loop
HarvestFile(file) ==
    LET linkTarget == CompleteBaseName(fs[file].link)
        alias      == CompleteBaseName(file)
    IN  IF fs[file].kind # "symlink" THEN symlinksMap
        ELSE IF ~SeqContains(MapValues(symlinksMap, linkTarget), alias)
        THEN MapInsert(symlinksMap, linkTarget, alias)
        ELSE symlinksMap

HarvestStep ==
    /\ pc = "harvest"
    /\ \E file \in pending :
          /\ symlinksMap' = HarvestFile(file)
          /\ pending' = pending \ {file}
    /\ UNCHANGED <<fs, refused, pos, fixDarkTheme, symlinkSet, cmdline, outputExists, out, pc, exitCode,
                   sd, text>>

\* line 277: the second QDirIterator starts when the first one is exhausted
HarvestDone ==
    /\ pc = "harvest"
    /\ pending = {}
    /\ pc' = "build"
    /\ pending' = FilesBelow(SourceDir(sd))
    /\ UNCHANGED <<fs, refused, pos, fixDarkTheme, symlinkSet, cmdline, outputExists, out, symlinksMap,
                   exitCode, sd, text>>

\* the output file of a candidate of the build pass
DciFileName(file) == CompleteBaseName(file) \o ".dci"

\* sibling dark/<filename>
DarkIcon(file) == DirPath(file) \o "/dark/" \o FileName(file)

\* buildTree with the result of recursionLink not handed to dciChecker
buildTreeUnchecked(file, saveOk) ==
    LET size  == Mkdir(EmptyDci, "/256")
        tone  == Mkdir(size.dci, "/256/normal.light")
        light == writeImage(tone.dci, file, "/256/normal.light", saveOk)
        dark  == Mkdir(light.dci, "/256/normal.dark")
    IN  IF ~size.ok \/ ~tone.ok THEN Fatal(tone.dci)
        ELSE IF light.ret # "true" THEN light
        ELSE IF ~dark.ok THEN Fatal(dark.dci)
        ELSE IF DarkIcon(file) \in DOMAIN fs
        THEN LET image == writeImage(dark.dci, DarkIcon(file),
                                     "/256/normal.dark", saveOk)
             IN  IF image.ret = "fatal" THEN image
                 ELSE [ret |-> "true", dci |-> image.dci]
        ELSE LET mirror == recursionLink(dark.dci, "/256/normal.light",
                                         "/256/normal.dark")
             IN  [ret |-> "true", dci |-> mirror.dci]

\* lines 302-317: the tree built for a candidate; ret is "false" when the
\* light source does not decode, "fatal" when dciChecker exits
buildTree(file, saveOk) ==
    LET size  == Mkdir(EmptyDci, "/256")
        tone  == Mkdir(size.dci, "/256/normal.light")
        light == writeImage(tone.dci, file, "/256/normal.light", saveOk)
        dark  == Mkdir(light.dci, "/256/normal.dark")
    IN  IF ~size.ok \/ ~tone.ok THEN Fatal(tone.dci)
        ELSE IF light.ret # "true" THEN light
        ELSE IF ~dark.ok THEN Fatal(dark.dci)
        ELSE IF DarkIcon(file) \in DOMAIN fs
        THEN LET image == writeImage(dark.dci, DarkIcon(file),
                                     "/256/normal.dark", saveOk)
             IN  IF image.ret = "fatal" THEN image
                 ELSE [ret |-> "true", dci |-> image.dci]
        ELSE LET mirror == recursionLink(dark.dci, "/256/normal.light",
                                         "/256/normal.dark")
             IN  IF ~mirror.ok THEN Fatal(mirror.dci)
                 ELSE [ret |-> "true", dci |-> mirror.dci]

Continue(file) ==
    /\ pending' = pending \ {file}
    /\ UNCHANGED <<pc, exitCode>>

\* lines 284-285
SkipSymlink(file) ==
    /\ fs[file].kind = "symlink"
    /\ Continue(file)
    /\ UNCHANGED out

\* lines 287-290 and 143-173; writeOk: whether writeToFile succeeds
FixDarkTheme(file, writeOk) ==
    /\ fs[file].kind # "symlink"
    /\ fixDarkTheme
    /\ LET newFile == FileName(file)
           fixed   == fixDarkTree(fs[file].dci)
       IN  IF fs[file].kind # "dci"
           THEN Continue(file) /\ UNCHANGED out
           ELSE IF ~fixed.ok \/ ~writeOk
           THEN Exit(-6) /\ UNCHANGED <<out, pending>>
           ELSE /\ out' = makeLink(file,
                                   WriteToFile(out, newFile, fixed.dci, file),
                                   newFile, symlinksMap)
                /\ Continue(file)

\* IgnoreDark without the skip: the file below dark/ is packaged as an icon
IgnoreDarkPackaging(file) ==
    /\ fs[file].kind # "symlink"
    /\ ~fixDarkTheme
    /\ EndsWith(DirPath(file), "/dark")
    /\ LET built == buildTree(file, TRUE)
       IN  IF built.ret # "true"
           THEN UNCHANGED out
           ELSE out' = makeLink(file,
                                WriteToFile(out, DciFileName(file),
                                            built.dci, file),
                                DciFileName(file), symlinksMap)
    /\ Continue(file)

\* lines 292-295
IgnoreDark(file) ==
    /\ fs[file].kind # "symlink"
    /\ ~fixDarkTheme
    /\ EndsWith(DirPath(file), "/dark")
    /\ Continue(file)
    /\ UNCHANGED out

\* SkipExists without the skip: the container is written again
SkipExistsOverwriting(file) ==
    /\ fs[file].kind # "symlink"
    /\ ~fixDarkTheme
    /\ ~EndsWith(DirPath(file), "/dark")
    /\ FileExists(out, DciFileName(file))
    /\ LET built == buildTree(file, TRUE)
       IN  IF built.ret # "true"
           THEN UNCHANGED out
           ELSE out' = makeLink(file,
                                WriteToFile(out, DciFileName(file),
                                            built.dci, file),
                                DciFileName(file), symlinksMap)
    /\ Continue(file)

\* lines 297-301
SkipExists(file) ==
    /\ fs[file].kind # "symlink"
    /\ ~fixDarkTheme
    /\ ~EndsWith(DirPath(file), "/dark")
    /\ FileExists(out, DciFileName(file))
    /\ Continue(file)
    /\ UNCHANGED out

\* BuildIcon with the result of writeImage for the light source ignored
BuildIconUndecoded(file, saveOk, writeOk) ==
    /\ fs[file].kind # "symlink"
    /\ ~fixDarkTheme
    /\ ~EndsWith(DirPath(file), "/dark")
    /\ ~FileExists(out, DciFileName(file))
    /\ LET built == buildTree(file, saveOk)
       IN  IF built.ret = "fatal" \/ ~writeOk
           THEN Exit(-6) /\ UNCHANGED <<out, pending>>
           ELSE /\ out' = makeLink(file,
                                   WriteToFile(out, DciFileName(file),
                                               built.dci, file),
                                   DciFileName(file), symlinksMap)
                /\ Continue(file)

\* lines 302-321
BuildIcon(file, saveOk, writeOk) ==
    /\ fs[file].kind # "symlink"
    /\ ~fixDarkTheme
    /\ ~EndsWith(DirPath(file), "/dark")
    /\ ~FileExists(out, DciFileName(file))
    /\ LET built == buildTree(file, saveOk)
       IN  IF built.ret = "false"
           THEN Continue(file) /\ UNCHANGED out
           ELSE IF built.ret = "fatal" \/ ~writeOk
           THEN Exit(-6) /\ UNCHANGED <<out, pending>>
           ELSE /\ out' = makeLink(file,
                                   WriteToFile(out, DciFileName(file),
                                               built.dci, file),
                                   DciFileName(file), symlinksMap)
                /\ Continue(file)

\* what a turn of the second QDirIterator loop leaves alone
BuildFrame ==
    UNCHANGED <<fs, refused, pos, fixDarkTheme, symlinkSet, cmdline, outputExists,
                symlinksMap, sd, text>>

\* lines 280-322: one turn of the second QDirIterator loop, by its outcome
SkipSymlinkStep ==
    /\ pc = "build"
    /\ \E file \in pending : SkipSymlink(file)
    /\ BuildFrame

FixDarkThemeStep ==
    /\ pc = "build"
    /\ \E file \in pending, writeOk \in BOOLEAN : FixDarkTheme(file, writeOk)
    /\ BuildFrame

IgnoreDarkStep ==
    /\ pc = "build"
    /\ \E file \in pending : IgnoreDark(file)
    /\ BuildFrame

SkipExistsStep ==
    /\ pc = "build"
    /\ \E file \in pending : SkipExists(file)
    /\ BuildFrame

BuildIconStep ==
    /\ pc = "build"
    /\ \E file \in pending, saveOk \in BOOLEAN, writeOk \in BOOLEAN :
          BuildIcon(file, saveOk, writeOk)
    /\ BuildFrame

\* line 323: the next source directory
BuildDone ==
    /\ pc = "build"
    /\ pending = {}
    /\ pc' = "dirs"
    /\ sd' = sd + 1
    /\ UNCHANGED <<fs, refused, pos, fixDarkTheme, symlinkSet, cmdline, outputExists, out, symlinksMap,
                   exitCode, pending, text>>

\* line 325
Finish ==
    /\ pc = "dirs"
    /\ sd > Len(sourceDirectory)
    /\ Exit(0)
    /\ UNCHANGED <<fs, refused, pos, fixDarkTheme, symlinkSet, cmdline, outputExists, out, symlinksMap,
                   sd, pending, text>>

Next ==
    \/ ParseArgs
    \/ PrepareOutputDir
    \/ LoadSymlinkMap
    \/ BeginSourceDir
    \/ HarvestStep
    \/ HarvestDone
    \/ SkipSymlinkStep
    \/ FixDarkThemeStep
    \/ IgnoreDarkStep
    \/ SkipExistsStep
    \/ BuildIconStep
    \/ BuildDone
    \/ Finish

Spec == Init /\ [][Next]_vars

(***************************************************************************)
(* The alias parser on its own: the run of main() from the point where the *)
(* alias file is loaded, over bounded alias texts.                         *)
(***************************************************************************)
Alphabet == {"a", "b", ",", "\"", "\n", " "}

RECURSIVE TextsOfLen(_)
TextsOfLen(n) ==
    IF n = 0 THEN {""}
    ELSE {t \o c : t \in TextsOfLen(n - 1), c \in Alphabet}

FreeTexts == UNION {TextsOfLen(n) : n \in 0..MaxTextLen}

\* icon names as they stand on a line of a quoted value
Words == {"a", "b", "ab"}

LineSeqs == UNION {[1..n -> Words] : n \in 1..MaxLines}

RECURSIVE JoinLines(_)
JoinLines(lines) ==
    IF Len(lines) = 1 THEN lines[1]
    ELSE lines[1] \o "\n" \o JoinLines(Tail(lines))

\* key,"<lines>" : the record of a quoted multi-line value, the first line
\* on the line of the opening quote (lead = "") or on the next one, the
\* closing quote on the last line (trail = "") or on a line of its own
QuotedRecord(key, lines, gap, lead, trail) ==
    key \o "," \o gap \o "\"" \o lead \o JoinLines(lines) \o trail \o "\""

\* what follows the closing quote: nothing, a line end, or a further record
RecordEnds == {"", "\n", "\nb,a\n"}

\* the quoted records with the text each of them stands for
QuotedCases ==
    {[key |-> key, lines |-> lines, end |-> end,
      text |-> QuotedRecord(key, lines, gap, lead, trail) \o end] :
        key \in Names, lines \in LineSeqs, gap \in {"", " "},
        lead \in {"", "\n"}, trail \in {"", "\n"}, end \in RecordEnds}

QuotedTexts == {c.text : c \in QuotedCases}

\* the fields of unquoted records: empty, bare, with whitespace around
Fields == {"", "a", " b"}

UnquotedLines == UNION {[1..n -> Fields \X Fields] : n \in 1..MaxLines}

\* key,value<LF> for each record of recs
RECURSIVE JoinRecords(_)
JoinRecords(recs) ==
    IF recs = <<>> THEN ""
    ELSE recs[1][1] \o "," \o recs[1][2] \o "\n" \o JoinRecords(Tail(recs))

\* the files of unquoted records with the text each of them stands for
UnquotedCases ==
    {[recs |-> recs, text |-> JoinRecords(recs)] : recs \in UnquotedLines}

UnquotedTexts == {c.text : c \in UnquotedCases}

\* the content the help text of --symlink shows, with short names
HelpText == "\t a, b\n\t b, \"\n\t a\n\t ab\n\t \"\n"

InitParse ==
    /\ fs = EmptyDir
    /\ refused = {}
    /\ pos = 0
    /\ fixDarkTheme = FALSE
    /\ cmdline = "ok"
    /\ symlinkSet = TRUE
    /\ outputExists = TRUE
    /\ out = EmptyDir
    /\ text \in FreeTexts \cup QuotedTexts \cup UnquotedTexts \cup {HelpText}
    /\ symlinksMap = <<>>
    /\ pc = "symlink"
    /\ exitCode = 0
    /\ sd = 1
    /\ pending = {}

NextParse == LoadSymlinkMap

SpecParse == InitParse /\ [][NextParse]_vars

(***************************************************************************)
(* The record loop of parseIconFileSymlinkMap, one iteration at a step,    *)
(* over the same alias texts.                                              *)
(***************************************************************************)
ParseFrame ==
    UNCHANGED <<fs, refused, fixDarkTheme, symlinkSet, cmdline, outputExists,
                out, exitCode, sd, pending, text>>

\* ReadRecord that puts the device back to the start of a record whose
\* value is empty
ReadRecordAgain ==
    /\ pc = "symlink"
    /\ pos < Len(text)
    /\ LET r == parseRecord(text, pos, symlinksMap)
       IN  /\ symlinksMap' = r.map
           /\ pos' = IF readNextSection(text,
                                        readNextSection(text, pos).pos).section
                            = ""
                     THEN pos ELSE r.pos
    /\ UNCHANGED pc
    /\ ParseFrame

\* lines 112-121: one iteration of while (!file.atEnd())
ReadRecord ==
    /\ pc = "symlink"
    /\ pos < Len(text)
    /\ LET r == parseRecord(text, pos, symlinksMap)
       IN  /\ symlinksMap' = r.map
           /\ pos' = r.pos
    /\ UNCHANGED pc
    /\ ParseFrame

\* lines 123-125: the loop ends when the file is at its end
ParseDone ==
    /\ pc = "symlink"
    /\ pos >= Len(text)
    /\ pc' = "dirs"
    /\ UNCHANGED <<symlinksMap, pos>>
    /\ ParseFrame

NextRecords ==
    \/ ReadRecord
    \/ ParseDone

\* the loop is the only thing the process does, so it takes its next step:
\* weak fairness of each of its two steps.  ReadRecord is possible exactly
\* when the file is not at its end, so its weak fairness,
\* []<>(~ENABLED <<ReadRecord>>_vars) \/ []<><<ReadRecord>>_vars, is written
\* with that condition in the place of ENABLED.
SpecRecords ==
    /\ InitParse
    /\ [][NextRecords]_vars
    /\ WF_vars(ParseDone)
    /\ \/ []<>(~(pc = "symlink" /\ pos < Len(text)))
       \/ []<><<ReadRecord>>_vars

(***************************************************************************)
(* Maintenance mode on its own: the run of main() with --fix-dark-theme    *)
(* from the loop over the source directories, over one container file      *)
(* whose tree is drawn from a family of trees.                             *)
(***************************************************************************)
LightDir == "/256/normal.light"
DarkDir  == "/256/normal.dark"

LightTrees ==
    { {},
      {<<LightDir, FileNode("x")>>},
      {<<LightDir, DirNode>>},
      {<<LightDir, DirNode>>, <<LightDir \o "/2", DirNode>>,
       <<LightDir \o "/2/1.webp", FileNode("l2")>>},
      {<<LightDir, DirNode>>, <<LightDir \o "/2", DirNode>>,
       <<LightDir \o "/2/1.webp", FileNode("l2")>>,
       <<LightDir \o "/1.webp", LinkNode(LightDir \o "/2/1.webp")>>} }

DarkTrees ==
    { {},
      {<<DarkDir, FileNode("y")>>},
      {<<DarkDir, LinkNode(LightDir)>>},
      {<<DarkDir, DirNode>>},
      {<<DarkDir, DirNode>>, <<DarkDir \o "/2", DirNode>>,
       <<DarkDir \o "/2/1.webp", FileNode("d2")>>},
      {<<DarkDir, DirNode>>, <<DarkDir \o "/2", DirNode>>,
       <<DarkDir \o "/2/1.webp", LinkNode(LightDir \o "/2/1.webp")>>} }

OtherTrees ==
    { {},
      {<<"/512", FileNode("z")>>},
      {<<"/512", DirNode>>, <<"/512/hover.light", DirNode>>,
       <<"/512/hover.light/1.webp", FileNode("h")>>},
      {<<"/512", DirNode>>, <<"/512/hover.light", DirNode>>,
       <<"/512/hover.light/1.webp", FileNode("h")>>,
       <<"/512/hover.dark", DirNode>>},
      {<<"/256/light", DirNode>>, <<"/256/light/1.webp", FileNode("p")>>} }

TreeOf(nodes) ==
    LET all == nodes \cup {<<"/", DirNode>>, <<"/256", DirNode>>}
    IN  [p \in {n[1] : n \in all} |-> (CHOOSE n \in all : n[1] = p)[2]]

FixTrees ==
    {TreeOf(l \cup d \cup o) :
        l \in LightTrees, d \in DarkTrees, o \in OtherTrees}

FixFile == "/s1/a.dci"

InitFix ==
    /\ \E tree \in FixTrees : fs = [p \in {FixFile} |-> DciFile(tree)]
    /\ refused \in {{}} \cup RefusedSets
    /\ pos = 0
    /\ fixDarkTheme = TRUE
    /\ cmdline = "ok"
    /\ symlinkSet = FALSE
    /\ outputExists = TRUE
    /\ out = EmptyDir
    /\ text = ""
    /\ symlinksMap = <<>>
    /\ pc = "dirs"
    /\ exitCode = 0
    /\ sd = 1
    /\ pending = {}

NextFix ==
    \/ BeginSourceDir
    \/ HarvestStep
    \/ HarvestDone
    \/ FixDarkThemeStep
    \/ BuildDone
    \/ Finish

SpecFix == InitFix /\ [][NextFix]_vars

(***************************************************************************)
(* Properties.                                                             *)
(***************************************************************************)
Scales == {2, 3}

\* the paths of a tree strictly below dir, and their part below dir
Under(dci, dir) ==
    {p \in DOMAIN dci : Len(p) > Len(dir) /\ Left(p, Len(dir) + 1) = dir \o "/"}

Below(dir, p) == SubSeq(p, Len(dir) + 1, Len(p))

ScaleFile(toneDir, s) == toneDir \o "/" \o ToString(s) \o "/1.webp"

\* the containers written during the run, by output name
Written == {n \in DOMAIN out : out[n].kind = "file" /\ out[n].src \in DOMAIN fs}

\* a candidate of the build pass with a decodable light source
Decodable(n) == ~fixDarkTheme /\ CanRead(out[n].src)

\* C1: the container written for a decodable icon without a sibling dark
\* file holds exactly one File per scale under /256/normal.light, and under
\* /256/normal.dark the same structure with a Link to the light leaf at
\* every leaf, and no File.
C1_LightOnlyContainer ==
    \A n \in Written :
        Decodable(n) /\ DarkIcon(out[n].src) \notin DOMAIN fs =>
            LET dci == out[n].dci
            IN  /\ {p \in Under(dci, LightDir) : dci[p].type # "Directory"}
                       = {ScaleFile(LightDir, s) : s \in Scales}
                /\ \A s \in Scales :
                       Type(dci, ScaleFile(LightDir, s)) = "File"
                /\ {Below(DarkDir, p) : p \in Under(dci, DarkDir)}
                       = {Below(LightDir, p) : p \in Under(dci, LightDir)}
                /\ \A p \in Under(dci, LightDir) :
                       LET q == DarkDir \o Below(LightDir, p)
                       IN  IF dci[p].type = "Directory"
                           THEN Type(dci, q) = "Directory"
                           ELSE q \in DOMAIN dci /\ dci[q] = LinkNode(p)
                /\ \A p \in Under(dci, DarkDir) : dci[p].type # "File"

C1_Witness ==
    \E n \in Written :
        /\ Decodable(n)
        /\ DarkIcon(out[n].src) \notin DOMAIN fs
        /\ Type(out[n].dci, ScaleFile(DarkDir, 3)) = "Symlink"

\* C2: the container written for a decodable icon with a sibling dark file
\* holds a File at /256/normal.dark/<s>/1.webp for each scale and no Link
\* under /256/normal.dark.
C2_BothSourcesContainer ==
    \A n \in Written :
        Decodable(n) /\ DarkIcon(out[n].src) \in DOMAIN fs =>
            LET dci == out[n].dci
            IN  /\ \A s \in Scales :
                       Type(dci, ScaleFile(DarkDir, s)) = "File"
                /\ \A p \in Under(dci, DarkDir) : dci[p].type # "Symlink"

\* C3: no (canonical, alias) pair is held more than once by the multimap.
C3_NoDuplicatePairs ==
    \A i, j \in 1..Len(symlinksMap) :
        symlinksMap[i] = symlinksMap[j] => i = j

\* C4: once a container or an alias symlink has been written, no pair is
\* inserted into the multimap any more.
C4_HarvestBeforeBuild ==
    [][(\E n \in DOMAIN out : out[n].src # "")
           => symlinksMap' = symlinksMap]_vars

\* C5: a record key,"<v1 .. vn on lines of their own>" yields exactly the
\* pairs (key, v1) .. (key, vn), in this order, and a record that follows
\* yields its own pair.
C5_QuotedLinesArePairs ==
    pc = "dirs" =>
        \A c \in QuotedCases :
            text = c.text =>
                symlinksMap =
                    [i \in 1..Len(c.lines) |-> <<c.key, c.lines[i]>>]
                    \o (IF c.end = "\nb,a\n" THEN << <<"b", "a">> >> ELSE <<>>)

C5_Witness ==
    /\ pc = "dirs"
    /\ text = "a,\"\nab\nb\n\""
    /\ symlinksMap = << <<"a", "ab">>, <<"a", "b">> >>

\* the output name a.dci is wanted by nothing but the pair (c, a): no source
\* file that is packaged or fixed has the base name a, and a is the alias
\* of no other name
NameFree(c, a) ==
    /\ \A f \in DOMAIN fs :
           fs[f].kind # "symlink" => CompleteBaseName(f) # a
    /\ \A i \in 1..Len(symlinksMap) :
           symlinksMap[i][2] = a => symlinksMap[i][1] = c

\* C6: when the run has ended, every pair (c, a) of the multimap whose
\* container c.dci was written has its symlink a.dci -> c.dci; stated for
\* the pairs whose output name a.dci nothing else wants.
C6_AliasesMaterialized ==
    pc = "exit" /\ exitCode = 0 =>
        \A i \in 1..Len(symlinksMap) :
            LET c == symlinksMap[i][1]
                a == symlinksMap[i][2]
            IN  (c \o ".dci") \in Written /\ NameFree(c, a) =>
                    /\ (a \o ".dci") \in DOMAIN out
                    /\ out[a \o ".dci"].kind = "symlink"
                    /\ out[a \o ".dci"].link = c \o ".dci"

\* the dark-tone sibling of a light-tone directory
DarkSibling(j) == Left(j, Len(j) - 5) \o "dark"

\* the light-tone directories maintenance mode looks at: the child
\* directories, named *.light, of the top-level directories
LightDirs(dci) ==
    {j \in DOMAIN dci :
        /\ dci[j].type = "Directory"
        /\ EndsWith(j, ".light")
        /\ DirPath(j) # "/"
        /\ DirPath(DirPath(j)) = "/"
        /\ dci[DirPath(j)].type = "Directory"}

\* the containers maintenance mode wrote, by output name
Fixed ==
    {n \in Written : fixDarkTheme /\ fs[out[n].src].kind = "dci"}

\* C7: the tree maintenance mode writes holds every node of the input tree
\* unchanged, and every added path is a dark sibling that was absent, or
\* lies below one.
C7_MaintenanceKeepsInput ==
    \A n \in Fixed :
        LET input  == fs[out[n].src].dci
            output == out[n].dci
        IN  /\ \A p \in DOMAIN input :
                   p \in DOMAIN output /\ output[p] = input[p]
            /\ \A p \in DOMAIN output \ DOMAIN input :
                   \E j \in LightDirs(input) :
                       /\ DarkSibling(j) \notin DOMAIN input
                       /\ \/ p = DarkSibling(j)
                          \/ p \in Under(output, DarkSibling(j))

C7_Witness ==
    \E n \in Fixed :
        LET input == fs[out[n].src].dci
        IN  /\ DarkDir \o "/2/1.webp" \in DOMAIN out[n].dci \ DOMAIN input
            /\ "/512/hover.dark" \in DOMAIN input

\* C8: on a tree whose every light-tone directory has its dark sibling,
\* maintenance mode writes the input tree as it is.
C8_MaintenanceNoOpWhenComplete ==
    \A n \in Fixed :
        LET input == fs[out[n].src].dci
        IN  (\A j \in LightDirs(input) : DarkSibling(j) \in DOMAIN input)
                => out[n].dci = input

C8_Witness ==
    \E n \in Fixed :
        LET input == fs[out[n].src].dci
        IN  /\ LightDirs(input) = {LightDir, "/512/hover.light"}
            /\ \A j \in LightDirs(input) : DarkSibling(j) \in DOMAIN input
            /\ out[n].dci = input

\* a candidate of the build pass whose light source does not decode
Undecodable(f) ==
    /\ fs[f].kind # "symlink"
    /\ ~EndsWith(DirPath(f), "/dark")
    /\ ~CanRead(f)

\* C9: the turn of the build pass taken for a candidate whose light source
\* does not decode ends neither the run nor the pass and changes nothing
\* but the iterator: no container, no alias symlink.
C9_DecodeFailureSkipsIcon ==
    [][pc = "build" /\ ~fixDarkTheme =>
         /\ (pending # {} /\ \A f \in pending : Undecodable(f))
                => pc' = "build" /\ pending' # pending
         /\ \A f \in pending :
                Undecodable(f) /\ pending' = pending \ {f} =>
                    UNCHANGED <<out, symlinksMap, pc, exitCode, sd>>]_vars

C9_Witness ==
    /\ pc = "build"
    /\ ~fixDarkTheme
    /\ \E f \in FilesBelow(SourceDir(sd)) \ pending, g \in pending :
          /\ Undecodable(f)
          /\ DciFileName(f) \notin DOMAIN out
          /\ CanRead(g)

\* C10 as stated: a run with valid arguments against an output directory
\* that holds files from before ends without error, and every decodable
\* icon has its container then.
C10_RerunCompletes ==
    (/\ pc = "exit"
     /\ cmdline = "ok"
     /\ \E n \in DOMAIN out : out[n].src = "") =>
        /\ exitCode = 0
        /\ \A f \in DOMAIN fs :
               (~fixDarkTheme /\ CanRead(f) /\ ~EndsWith(DirPath(f), "/dark"))
                   => FileExists(out, DciFileName(f))

\* C10, amended: a run whose output directory exists ends at once with
\* status -1 and leaves the directory as it is.  Within a run, the turn
\* taken for a candidate whose <name>.dci exists changes nothing in the
\* output directory and does not end the pass, and the turn taken for a
\* decodable candidate whose <name>.dci does not exist writes it.
C10_ExistingOutput ==
    [][/\ (pc = "output" /\ outputExists) =>
              pc' = "exit" /\ exitCode' = -1 /\ out' = out
       /\ (pc = "build" /\ ~fixDarkTheme) =>
              \A f \in pending :
                  (/\ pending' = pending \ {f}
                   /\ fs[f].kind # "symlink"
                   /\ ~EndsWith(DirPath(f), "/dark")) =>
                      IF FileExists(out, DciFileName(f))
                      THEN out' = out /\ pc' = "build"
                      ELSE CanRead(f) =>
                               /\ DciFileName(f) \in DOMAIN out'
                               /\ out'[DciFileName(f)]
                                      = ContainerEntry(out'[DciFileName(f)].dci,
                                                       f)]_vars

C10_Witness ==
    /\ pc = "exit"
    /\ exitCode = 0
    /\ \E f \in DOMAIN fs :
          /\ ~fixDarkTheme /\ CanRead(f) /\ ~EndsWith(DirPath(f), "/dark")
          /\ DciFileName(f) \in Written
          /\ out[DciFileName(f)].src # f

\* C11: a file of unquoted records key,value<LF> yields exactly one pair
\* per line, in order, made of the trimmed key and the trimmed value of
\* that line, also when a field is empty.
C11_UnquotedLinesArePairs ==
    pc = "dirs" =>
        \A c \in UnquotedCases :
            text = c.text =>
                symlinksMap =
                    [i \in 1..Len(c.recs) |->
                        <<Trimmed(c.recs[i][1]), Trimmed(c.recs[i][2])>>]

\* the paths created in the tree of a build-pass candidate
ScalePaths(toneDir) ==
    UNION {{toneDir \o "/" \o ToString(s), ScaleFile(toneDir, s)} :
               s \in Scales}

BuildPaths(f) ==
    {"/256", LightDir, DarkDir} \cup ScalePaths(LightDir)
        \cup (IF DarkIcon(f) \in DOMAIN fs /\ ~CanRead(DarkIcon(f))
              THEN {} ELSE ScalePaths(DarkDir))

\* the paths maintenance mode creates in a tree
FixPaths(input) ==
    UNION {{DarkSibling(j)}
               \cup {DarkSibling(j) \o Below(j, p) : p \in Under(input, j)} :
           j \in {l \in LightDirs(input) : DarkSibling(l) \notin DOMAIN input}}

\* a candidate that is built or fixed when its turn comes, and for which a
\* mkdir, writeFile or link fails
Doomed(f) ==
    /\ fs[f].kind # "symlink"
    /\ IF fixDarkTheme
       THEN fs[f].kind = "dci" /\ FixPaths(fs[f].dci) \cap refused # {}
       ELSE /\ ~EndsWith(DirPath(f), "/dark")
            /\ ~FileExists(out, DciFileName(f))
            /\ CanRead(f)
            /\ BuildPaths(f) \cap refused # {}

\* C12: a run that ends within the build pass ends with status -6 and
\* leaves the output directory as it was; the turn of a candidate for which
\* a tree mutation fails never completes, so no later turn follows it, and
\* no container and no alias symlink is ever written for it; nothing
\* happens after the exit.
C12_TreeFailureIsFatal ==
    [][/\ pc # "exit"
       /\ pc = "build" =>
              /\ pc' = "exit" => exitCode' = -6 /\ out' = out
              /\ \A f \in pending :
                     Doomed(f) =>
                         /\ f \in pending'
                         /\ pc' \in {"build", "exit"}
                         /\ \A n \in DOMAIN out' : out'[n].src # f]_vars

C12_Witness ==
    /\ pc = "exit"
    /\ exitCode = -6
    /\ \E f \in pending, g \in pending :
          /\ f # g
          /\ Doomed(f)
          /\ MapContains(symlinksMap, CompleteBaseName(f))
          /\ \A n \in DOMAIN out : out[n].src # f

\* the output names of the aliases the multimap holds for a candidate
AliasNames(f) ==
    {symlinksMap[i][2] \o ".dci" :
        i \in {k \in 1..Len(symlinksMap) :
                   symlinksMap[k][1] = CompleteBaseName(f)}}

\* the output name a candidate is written to, and the file this reaches
OutputName(f) == IF fixDarkTheme THEN FileName(f) ELSE DciFileName(f)

OutputFile(f) ==
    LET real == Resolve(out, OutputName(f), Cardinality(DOMAIN out))
    IN  IF real = "" THEN OutputName(f) ELSE real

\* C13: the turn that writes the container of a candidate does not end the
\* pass, whatever becomes of its alias symlinks: every alias whose name is
\* free is created as a symlink to the container, an alias whose name is
\* taken fails and leaves that entry, like every other entry, as it was;
\* and a run that gets through all source directories ends with status 0.
C13_AliasLinkBestEffort ==
    [][/\ pc = "build" =>
              \A f \in pending :
                  pending' = pending \ {f} /\ out' # out =>
                      /\ pc' = "build"
                      /\ \A n \in DOMAIN out \ {OutputFile(f)} :
                             n \in DOMAIN out' /\ out'[n] = out[n]
                      /\ \A a \in AliasNames(f) :
                             /\ a \in DOMAIN out'
                             /\ a \notin DOMAIN out \cup {OutputFile(f)} =>
                                    out'[a] = SymlinkEntry(OutputName(f), f)
       /\ pc = "dirs" /\ pc' = "exit" => exitCode' = 0]_vars

\* the run ended with 0 after the first alias of b failed on the container
\* a.dci and the alias after it was created
C13_Witness ==
    /\ pc = "exit"
    /\ exitCode = 0
    /\ MapValues(symlinksMap, "b") = <<"a", "c">>
    /\ \E f \in DOMAIN fs, g \in DOMAIN fs :
          /\ "a.dci" \in DOMAIN out /\ out["a.dci"] = ContainerEntry(out["a.dci"].dci, g)
          /\ "b.dci" \in DOMAIN out /\ out["b.dci"] = ContainerEntry(out["b.dci"].dci, f)
          /\ "c.dci" \in DOMAIN out /\ out["c.dci"] = SymlinkEntry("b.dci", f)

\* the statuses main() ends with, by failure class: cp.showHelp(-1),
\* showHelp(-2) and showHelp(-4) for missing arguments, showHelp(-5) for an
\* output directory that cannot be created, return -1 for one that exists,
\* exit(-6) of dciChecker, exit(-7) of parseIconFileSymlinkMap
FailureStatuses ==
    [args |-> {-1, -2, -4}, mkpath |-> {-5}, exists |-> {-1},
     write |-> {-6}, open |-> {-7}]

\* the failure class of a step that ends the run from the current state
FailureClass ==
    IF pc = "args" THEN "args"
    ELSE IF pc = "output" THEN (IF outputExists THEN "exists" ELSE "mkpath")
    ELSE IF pc = "symlink" THEN "open"
    ELSE "write"

\* C14: a run that ends on a failure ends with a negative status, one of
\* its failure class, and no other failure class ends with this status.
C14_DistinctExitStatuses ==
    [][pc' = "exit" /\ pc \in {"args", "output", "symlink", "build"} =>
           /\ exitCode' < 0
           /\ exitCode' \in FailureStatuses[FailureClass]
           /\ \A c \in DOMAIN FailureStatuses \ {FailureClass} :
                  exitCode' \notin FailureStatuses[c]]_vars

\* C15: in the tree maintenance mode writes, every light-tone directory
\* has its dark sibling; a sibling that was absent is a directory that
\* holds, for the nodes below the light-tone directory and for nothing
\* else, a directory for a directory and a Link to the node for any other
\* node.
C15_MaintenanceFillsGaps ==
    \A n \in Fixed :
        LET input  == fs[out[n].src].dci
            output == out[n].dci
        IN  \A j \in LightDirs(input) :
                LET dark == DarkSibling(j)
                IN  /\ dark \in DOMAIN output
                    /\ dark \notin DOMAIN input =>
                           /\ output[dark] = DirNode
                           /\ {Below(dark, q) : q \in Under(output, dark)}
                                  = {Below(j, p) : p \in Under(input, j)}
                           /\ \A p \in Under(input, j) :
                                  LET q == dark \o Below(j, p)
                                  IN  /\ q \in DOMAIN output
                                      /\ output[q] =
                                             IF input[p].type = "Directory"
                                             THEN DirNode ELSE LinkNode(p)

C15_Witness ==
    \E n \in Fixed :
        LET input  == fs[out[n].src].dci
            output == out[n].dci
        IN  /\ LightDirs(input) = {LightDir, "/512/hover.light"}
            /\ DarkDir \notin DOMAIN input
            /\ "/512/hover.dark" \notin DOMAIN input
            /\ Type(input, LightDir \o "/1.webp") = "Symlink"
            /\ output[DarkDir \o "/2/1.webp"]
                   = LinkNode(LightDir \o "/2/1.webp")
            /\ output[DarkDir \o "/1.webp"] = LinkNode(LightDir \o "/1.webp")
            /\ output["/512/hover.dark/1.webp"]
                   = LinkNode("/512/hover.light/1.webp")

\* a candidate of the build pass that is a regular file outside dark/ with
\* a decodable light source, and whose base name no other file of the
\* source tree has, its own dark sibling aside
OwnName(f) ==
    /\ CanRead(f)
    /\ ~EndsWith(DirPath(f), "/dark")
    /\ \A g \in DOMAIN fs \ {f, DarkIcon(f)} :
           CompleteBaseName(g) # CompleteBaseName(f)

\* C16: when a build run has ended without failure, every such candidate
\* has its own container <name>.dci, a regular file written for it.
C16_OrderIndependentBuild ==
    pc = "exit" /\ exitCode = 0 /\ ~fixDarkTheme =>
        \A f \in DOMAIN fs :
            OwnName(f) =>
                /\ DciFileName(f) \in DOMAIN out
                /\ out[DciFileName(f)].kind = "file"
                /\ out[DciFileName(f)].src = f

\* C17: every pair the parser inserts has a canonical name and an alias
\* name that are not empty and have no whitespace at either end.
C17_PairsWellFormed ==
    pc = "dirs" /\ symlinkSet =>
        \A i \in 1..Len(symlinksMap) :
            \A name \in {symlinksMap[i][1], symlinksMap[i][2]} :
                name # "" /\ Trimmed(name) = name

\* C18: in build mode nothing in the output directory is written for a
\* source file that is a symlink or lies in a directory named dark, and a
\* payload of a container comes from the candidate it was written for, or,
\* under the dark tone, from the dark sibling of that candidate.
C18_NoContainerForLinksAndDark ==
    ~fixDarkTheme =>
        \A n \in DOMAIN out :
            out[n].src # "" =>
                LET f   == out[n].src
                    dci == out[n].dci
                IN  /\ fs[f].kind # "symlink"
                    /\ ~EndsWith(DirPath(f), "/dark")
                    /\ \A p \in DOMAIN dci :
                           dci[p].type = "File" =>
                               \E s \in Scales :
                                   \/ /\ p = ScaleFile(LightDir, s)
                                      /\ dci[p].data
                                             = WebpImageData(f, s * 256)
                                   \/ /\ p = ScaleFile(DarkDir, s)
                                      /\ dci[p].data
                                             = WebpImageData(DarkIcon(f),
                                                             s * 256)

C18_Witness ==
    /\ pc = "exit"
    /\ exitCode = 0
    /\ ~fixDarkTheme
    /\ \E f \in DOMAIN fs :
          /\ DarkIcon(f) \in DOMAIN fs
          /\ DciFileName(f) \in Written
          /\ out[DciFileName(f)].src = f
          /\ Type(out[DciFileName(f)].dci, ScaleFile(DarkDir, 3)) = "File"
          /\ \A n \in DOMAIN out : out[n].src # DarkIcon(f)

\* C19: every iteration of the record loop moves the read position forward
\* by at least one byte and not beyond the end of the file, and the loop
\* ends: the parser returns, with the pairs of the whole file.
C19_ParserTerminates ==
    /\ [][pc = "symlink" /\ pc' = "symlink" =>
               pos < pos' /\ pos' <= Len(text)]_vars
    /\ <>(/\ pc = "dirs"
          /\ pos = Len(text)
          /\ symlinksMap = parseIconFileSymlinkMap(text))

\* the loop has ended, after two iterations, on a file with no comma, a
\* blank line and a quote that is never closed
C19_Witness ==
    /\ pc = "dirs"
    /\ text = "a\n\n\""
    /\ pos = Len(text)
    /\ Len(symlinksMap) = 2

====
